---- MODULE Spec2Model ----
(***************************************************************************)
(* A model of sling: the connection limited HTTP client (a counting        *)
(* semaphore built on a buffered channel, wrapped around an underlying     *)
(* executor), the connection pool that owns it, the handles the pool       *)
(* hands out, and the JSON request builder with its HTTPRequest and        *)
(* OnHTTPResponse as a handle's Do runs them.                              *)
(*                                                                         *)
(* Go channel semantics used by the semaphore: a send on a buffered        *)
(* channel completes when the buffer holds fewer than cap elements and     *)
(* blocks otherwise; a receive completes when the buffer holds at least    *)
(* one element.  No order among blocked senders is assumed.                *)
(***************************************************************************)
EXTENDS Integers, Sequences, FiniteSets, TLC

(***************************************************************************)
(* Bounds of the model.                                                    *)
(***************************************************************************)
NumCallers == 3

MaxPoolSize == 2

NumHandles == 2

DefaultPoolSize == 8

Callers == 1..NumCallers

Handles == 1..NumHandles

\* Config.PoolSize as a caller may set it: negative, zero and positive.
PoolSizes == (0 - 1)..MaxPoolSize

\* What a call of the underlying executor can end with: a response, an
\* error value, or a panic unwinding through the caller.
Outcomes == {"resp", "err", "panic"}

NoOutcome == "none"

NoHandle == 0

NoGate == 0 - 1

\* The executors (throttled clients) that can exist: the pool's own is 0.
PoolGate == 0

Gates == 0..NumHandles

VARIABLES
    config,      \* the Config handed to NewConnectionPool
    capacity,    \* cap() of the semaphore channel of every executor built
    sem,         \* per executor: the number of elements in its channel
    handleExec,  \* per handle: the executor pool.HTTP gave it
    pc,          \* per caller: where its Do call is
    on,          \* per caller: the executor its running Do was called on
    via,         \* per caller: the handle of its call while that call is
                 \* inside the underlying executor
    innerRet,    \* per caller: what the underlying executor ended with
    ret,         \* per caller: what the throttled Do ended with
    calls,       \* per caller: times the underlying executor was entered
    requests     \* the requests the underlying executor recorded, in order

gateVars == <<config, capacity, sem, handleExec, pc, on, via, innerRet, ret,
              calls, requests>>

VARIABLES
    baseURL,     \* the base URL string handed to the handle constructor
    kind,        \* which constructor is used
    handle,      \* what the constructor returned
    uPc,         \* where the construction and the Do on the handle are
    doPath,      \* the path of the request handed to Do
    reqURL,      \* the URL HTTPRequest resolved for the request
    netCalls     \* the calls made to the transport

urlVars == <<baseURL, kind, handle, uPc, doPath, reqURL, netCalls>>

VARIABLES
    builder,     \* the jsonRequest a JSONRequest call created: its fields
    exch         \* the request/response cycle run with that jsonRequest

jsonVars == <<builder, exch>>

vars == <<gateVars, urlVars, jsonVars>>

(***************************************************************************)
(* connection_pool.go                                                      *)
(***************************************************************************)
NewConnectionPoolStrict(cfg) ==
    IF cfg.PoolSize < 0 THEN DefaultPoolSize ELSE cfg.PoolSize

\* NewConnectionPool: the pool size handed to newThrottledHTTPClient.
NewConnectionPool(cfg) ==
    IF cfg.PoolSize <= 0 THEN DefaultPoolSize ELSE cfg.PoolSize

newThrottledHTTPClientExtra(maxRequests) ==
    [cap |-> maxRequests + 1, len |-> 0]

\* newThrottledHTTPClient: make(semaphore, maxRequests), an empty channel.
newThrottledHTTPClient(maxRequests) ==
    [cap |-> maxRequests, len |-> 0]

PoolHTTPOwnExecutor(h) == h

\* pool.HTTP hands every handle the pool's one netHTTPClient.
PoolHTTPExecutor(h) == PoolGate

(***************************************************************************)
(* The semaphore and the throttled client.                                 *)
(***************************************************************************)
CanSendOffByOne(len, cap) == len <= cap

\* A variant that keeps one slot of the buffer unused.
CanSendKeepsOneFree(len, cap) == len < cap - 1

\* s <- n completes only while the buffer has room.
CanSend(len, cap) == len < cap

\* <-s completes only while the buffer holds an element.
CanReceive(len) == len > 0

SemAfterUnlockNone(len) == len

\* <-s takes one element out of the buffer.
SemAfterUnlock(len) == len - 1

UnlockOnlyOnReturn(outcome) == outcome # "panic"

\* defer throttledClient.Unlock(): runs on return and on panic alike.
DeferredUnlockRuns(outcome) == TRUE

ThrottledReturnNil(r) == "resp"

\* return throttledClient.netHTTPClient.Do(req): the result as it is.
ThrottledReturn(r) == r

\* The request a caller hands to Do: each caller has one of its own.
RequestOf(c) == c

(***************************************************************************)
(* Initial state: a pool built from some Config, the handles obtained from *)
(* it by pool.HTTP, and no caller started.                                 *)
(***************************************************************************)
InitGate ==
    /\ config \in [PoolSize : PoolSizes]
    /\ capacity = newThrottledHTTPClient(NewConnectionPool(config)).cap
    /\ sem = [g \in Gates |->
                newThrottledHTTPClient(NewConnectionPool(config)).len]
    /\ handleExec = [h \in Handles |-> PoolHTTPExecutor(h)]
    /\ pc = [c \in Callers |-> "idle"]
    /\ on = [c \in Callers |-> NoGate]
    /\ via = [c \in Callers |-> NoHandle]
    /\ innerRet = [c \in Callers |-> NoOutcome]
    /\ ret = [c \in Callers |-> NoOutcome]
    /\ calls = [c \in Callers |-> 0]
    /\ requests = <<>>

\* A caller is started.  Callers are started one after another, each
\* running before the next is started.
Start(c) ==
    /\ pc[c] = "idle"
    /\ \A d \in Callers : d < c => pc[d] # "idle"
    /\ pc' = [pc EXCEPT ![c] = "started"]
    /\ UNCHANGED <<config, capacity, sem, handleExec, on, via, innerRet,
                   ret, calls, requests>>
    /\ UNCHANGED <<urlVars, jsonVars>>

\* Do on handle h: throttledClient.Lock() on the handle's executor, then
\* the underlying executor is entered.
Lock(c, h) ==
    /\ pc[c] = "started"
    /\ CanSend(sem[handleExec[h]], capacity)
    /\ sem' = [sem EXCEPT ![handleExec[h]] = @ + 1]
    /\ on' = [on EXCEPT ![c] = handleExec[h]]
    /\ via' = [via EXCEPT ![c] = h]
    /\ pc' = [pc EXCEPT ![c] = "inner"]
    /\ calls' = [calls EXCEPT ![c] = @ + 1]
    /\ UNCHANGED <<config, capacity, handleExec, innerRet, ret, requests>>
    /\ UNCHANGED <<urlVars, jsonVars>>

\* The underlying executor records the request and ends with outcome o.
InnerDo(c, o) ==
    /\ pc[c] = "inner"
    /\ requests' = Append(requests, RequestOf(c))
    /\ innerRet' = [innerRet EXCEPT ![c] = o]
    /\ pc' = [pc EXCEPT ![c] = "returned"]
    /\ via' = [via EXCEPT ![c] = NoHandle]
    /\ UNCHANGED <<config, capacity, sem, handleExec, on, ret, calls>>
    /\ UNCHANGED <<urlVars, jsonVars>>

\* The deferred Unlock, and Do's own return.
Unlock(c) ==
    /\ pc[c] = "returned"
    /\ IF DeferredUnlockRuns(innerRet[c])
       THEN /\ CanReceive(sem[on[c]])
            /\ sem' = [sem EXCEPT ![on[c]] = SemAfterUnlock(@)]
       ELSE UNCHANGED sem
    /\ ret' = [ret EXCEPT ![c] = ThrottledReturn(innerRet[c])]
    /\ pc' = [pc EXCEPT ![c] = "done"]
    /\ on' = [on EXCEPT ![c] = NoGate]
    /\ UNCHANGED <<config, capacity, handleExec, via, innerRet, calls,
                   requests>>
    /\ UNCHANGED <<urlVars, jsonVars>>

NextGate ==
    \/ \E c \in Callers : Start(c)
    \/ \E c \in Callers, h \in Handles : Lock(c, h)
    \/ \E c \in Callers, o \in Outcomes : InnerDo(c, o)
    \/ \E c \in Callers : Unlock(c)

(***************************************************************************)
(* URLs.  A string is a sequence of one-character strings.  url.Parse and  *)
(* URL.ResolveReference are modelled for strings over letters, ':' and '/' *)
(* (no user info, port, query, fragment, escapes or dot segments).         *)
(***************************************************************************)
Letters == {"h", "t", "p", "s", "f", "e", "d"}

SchemeHTTP == <<"h", "t", "t", "p">>

SchemeHTTPS == <<"h", "t", "t", "p", "s">>

SchemeFTP == <<"f", "t", "p">>

\* The base URLs tried: absolute ones with and without a path and a
\* trailing slash, rootless ones, relative ones and malformed ones.
BaseURLs ==
    {sch \o <<":", "/", "/", "e">> \o pth :
        sch \in {SchemeHTTP, SchemeHTTPS, SchemeFTP},
        pth \in {<<>>, <<"/">>, <<"/", "d">>, <<"/", "d", "/">>,
                 <<"/", "d", "/", "e">>}}
    \cup {sch \o <<":", "d">> : sch \in {SchemeHTTP, SchemeFTP}}
    \cup {<<>>, <<"e">>, <<"/", "d">>, <<"e", "/", "d">>, <<"/", "/", "e">>,
          <<":", "/">>, <<":">>, <<":", "/", "/", "e">>}

\* The request paths tried: relative, rooted, empty and unparsable.
ReqPaths ==
    {<<"s", "/", "p">>, <<"/", "s", "/", "p">>, <<"/", "/", "s">>, <<>>,
     <<":">>, <<"/", ":", "s">>}

StartsWith(str, pre) ==
    Len(str) >= Len(pre) /\ SubSeq(str, 1, Len(pre)) = pre

EndsWith(str, suf) ==
    Len(str) >= Len(suf) /\ SubSeq(str, Len(str) - Len(suf) + 1, Len(str)) = suf

\* strings.Index for a single character: 0 when absent (Go's -1).
IndexOf(str, ch) ==
    IF \E i \in 1..Len(str) : str[i] = ch
    THEN CHOOSE i \in 1..Len(str) :
             str[i] = ch /\ \A j \in 1..(i - 1) : str[j] # ch
    ELSE 0

RECURSIVE TrimLeftSlash(_)
\* strings.TrimLeft(path, "/")
TrimLeftSlash(str) ==
    IF str # <<>> /\ str[1] = "/" THEN TrimLeftSlash(Tail(str)) ELSE str

EmptyURL == [scheme |-> <<>>, host |-> <<>>, path |-> <<>>, opaque |-> <<>>]

RECURSIVE GetSchemeFrom(_, _)
\* url.getscheme: letters are skipped, ':' ends the scheme (an error at the
\* first position), any other character means there is no scheme.
GetSchemeFrom(raw, i) ==
    IF i > Len(raw)
    THEN [err |-> FALSE, scheme |-> <<>>, rest |-> raw]
    ELSE IF raw[i] \in Letters
    THEN GetSchemeFrom(raw, i + 1)
    ELSE IF raw[i] = ":"
    THEN IF i = 1
         THEN [err |-> TRUE, scheme |-> <<>>, rest |-> <<>>]
         ELSE [err |-> FALSE, scheme |-> SubSeq(raw, 1, i - 1),
               rest |-> SubSeq(raw, i + 1, Len(raw))]
    ELSE [err |-> FALSE, scheme |-> <<>>, rest |-> raw]

\* url.Parse: [ok, url]; ok = FALSE stands for (nil, err).
ParseURL(raw) ==
    LET g == GetSchemeFrom(raw, 1)
        colon == IndexOf(g.rest, ":")
        slash == IndexOf(g.rest, "/")
        afterSlashes == SubSeq(g.rest, 3, Len(g.rest))
        cut == IndexOf(afterSlashes, "/")
    IN  IF g.err
        THEN [ok |-> FALSE, url |-> EmptyURL]
        ELSE IF ~StartsWith(g.rest, <<"/">>) /\ g.scheme # <<>>
        THEN [ok |-> TRUE,
              url |-> [EmptyURL EXCEPT !.scheme = g.scheme, !.opaque = g.rest]]
        ELSE IF /\ ~StartsWith(g.rest, <<"/">>)
                /\ colon > 0
                /\ (slash = 0 \/ colon < slash)
        THEN [ok |-> FALSE, url |-> EmptyURL]
        ELSE IF /\ StartsWith(g.rest, <<"/", "/">>)
                /\ (g.scheme # <<>> \/ ~StartsWith(g.rest, <<"/", "/", "/">>))
        THEN [ok |-> TRUE,
              url |-> [scheme |-> g.scheme,
                       host |-> IF cut = 0 THEN afterSlashes
                                ELSE SubSeq(afterSlashes, 1, cut - 1),
                       path |-> IF cut = 0 THEN <<>>
                                ELSE SubSeq(afterSlashes, cut,
                                            Len(afterSlashes)),
                       opaque |-> <<>>]]
        ELSE [ok |-> TRUE,
              url |-> [EmptyURL EXCEPT !.scheme = g.scheme, !.path = g.rest]]

\* URL.String()
URLString(u) ==
    (IF u.scheme # <<>> THEN u.scheme \o <<":">> ELSE <<>>)
    \o (IF u.opaque # <<>>
        THEN u.opaque
        ELSE (IF u.scheme # <<>> \/ u.host # <<>>
              THEN <<"/", "/">> \o u.host ELSE <<>>)
             \o u.path)

\* The directory of a path: up to and including its last '/'.
RECURSIVE DirOf(_)
DirOf(pth) ==
    IF pth = <<>> \/ pth[Len(pth)] = "/" THEN pth
    ELSE DirOf(SubSeq(pth, 1, Len(pth) - 1))

\* url.resolvePath for paths without dot segments: the reference replaces
\* what follows the base's last '/', and the result is rooted.
ResolvePath(basePath, refPath) ==
    LET full == IF refPath = <<>> THEN basePath
                ELSE IF StartsWith(refPath, <<"/">>) THEN refPath
                ELSE DirOf(basePath) \o refPath
    IN  IF full = <<>> \/ StartsWith(full, <<"/">>) THEN full
        ELSE <<"/">> \o full

\* URL.ResolveReference for a non-nil base and reference.
ResolveReference(base, ref) ==
    IF ref.scheme # <<>>
    THEN ref
    ELSE IF ref.host # <<>>
    THEN [ref EXCEPT !.scheme = base.scheme]
    ELSE IF ref.path = <<>> /\ base.opaque # <<>>
    THEN [EmptyURL EXCEPT !.scheme = base.scheme, !.opaque = base.opaque]
    ELSE [scheme |-> base.scheme, host |-> base.host,
          path |-> ResolvePath(base.path, ref.path), opaque |-> <<>>]

(***************************************************************************)
(* json_request.go: the values a jsonRequest works on.                     *)
(***************************************************************************)
\* Error values.  Two errors are the same error when they are equal here.
NilError == [kind |-> "nil", method |-> "", url |-> <<>>, status |-> 0,
             of |-> 0]

ErrorOf(knd, n) == [NilError EXCEPT !.kind = knd, !.of = n]

\* A variant that omits the resolved URL and names the requested path.
DefaultErrorWithPath(method, pth, full, status) ==
    [kind |-> "request %s %s as JSON returned status %d",
     method |-> method, url |-> pth, status |-> status, of |-> 0]

\* fmt.Errorf("request %s %s as JSON returned status %d", method, URL, code)
DefaultError(method, pth, full, status) ==
    [kind |-> "request %s %s as JSON returned status %d",
     method |-> method, url |-> URLString(full), status |-> status, of |-> 0]

\* The methods handed to JSONRequest: empty (NewRequest makes it GET), a
\* valid token, and one that NewRequest rejects.
Methods == {"", "OPTIONS", "B D"}

ValidMethod(m) == m # "B D"

\* The decode targets a caller can register, by what they implement:
\* a pointer to plain data, an Errorable, an error, both, an Errorable
\* whose AsError returns nil, and a non-pointer value.
TargetKind ==
    <<"plain", "Errorable", "error", "both", "ErrorableNil", "value">>

NoTarget == 0

Targets == 1..Len(TargetKind)

\* Request bodies for Body: nil, a value that encodes, and one that
\* json.Encoder rejects (a channel, a function).
Bodies == {"nil", "encodable", "unencodable"}

\* Response bodies: a JSON document, the text {[ and the empty string.
ResponseBodies == {"valid", "malformed", "empty"}

StatusCodes == {200, 399, 400, 404, 499}

\* The status codes for which an error is registered, and the errors.
OverrideCodes == {200, 499}

RegisteredErrors == {ErrorOf("registered", 1), NilError}

NoStatusError == [ok |-> FALSE, err |-> NilError]

\* Header names as callers write them and the key http.Header files them
\* under (textproto.CanonicalMIMEHeaderKey).
HeaderNames == {"content-type", "Accept", "X-A", "x-a"}

HeaderValues == {"text/plain", "v"}

Canon(name) ==
    CASE name = "content-type" -> "Content-Type"
      [] name = "x-a" -> "X-A"
      [] OTHER -> name

HeaderKeys == {Canon(n) : n \in HeaderNames} \cup {"Content-Type", "Accept"}

\* make(http.Header)
NoHeaders == [k \in HeaderKeys |-> <<>>]

\* A variant of Add that keeps only the value added last.
HeaderAddReplaces(h, name, value) == [h EXCEPT ![Canon(name)] = <<value>>]

\* http.Header.Add
HeaderAdd(h, name, value) ==
    [h EXCEPT ![Canon(name)] = Append(@, value)]

\* A variant of Set that keeps the values already filed.
HeaderSetAppends(h, name, value) ==
    [h EXCEPT ![Canon(name)] = Append(@, value)]

\* http.Header.Set
HeaderSet(h, name, value) ==
    [h EXCEPT ![Canon(name)] = <<value>>]

\* The number of values a header map holds.
RECURSIVE CountValues(_, _)
CountValues(h, keys) ==
    IF keys = {} THEN 0
    ELSE LET k == CHOOSE x \in keys : TRUE
         IN  Len(h[k]) + CountValues(h, keys \ {k})

NoRequest ==
    [method |-> "", url |-> EmptyURL, headers |-> NoHeaders, body |-> "nil"]

\* JSONRequest(method, path)
JSONRequest(method, pth) ==
    [method |-> method, path |-> pth, body |-> "nil",
     success |-> NoTarget, failure |-> NoTarget,
     statusErrors |-> [c \in OverrideCodes |-> NoStatusError],
     headers |-> NoHeaders, hasURL |-> FALSE, URL |-> EmptyURL]

NoBuilder == JSONRequest("", <<>>)

NoResponse == [status |-> 0, body |-> "empty"]

\* What an earlier HTTPRequest call on the same builder returned: none yet.
NoPrevious == [hasReq |-> FALSE, req |-> NoRequest, err |-> NilError]

\* A request/response cycle that has not begun, on base URL base.
NewExchange(base) ==
    [pc |-> "building", base |-> base, hasReq |-> FALSE, req |-> NoRequest,
     hasResponder |-> FALSE, execCalls |-> 0, respCalls |-> 0,
     res |-> NoResponse, err |-> NilError, written |-> {}, decodes |-> 0,
     into |-> {}, log |-> <<>>, resolves |-> 0, prev |-> NoPrevious]

NoExchange == [NewExchange(EmptyURL) EXCEPT !.pc = "unused"]

\* No jsonRequest exists.
JSONIdle ==
    /\ builder = NoBuilder
    /\ exch = NoExchange

(***************************************************************************)
(* Handle construction.                                                    *)
(***************************************************************************)
NoError == "nil"

ParseFailed == "malformed URL"

OnlyHTTP == "Only http and https are supported"

Kinds == {"NewHTTP", "poolHTTP", "mockHTTP"}

\* What a constructor returns: ok is "a handle and a nil error"; hasURL is
\* FALSE when the handle holds a nil *url.URL.
NoHandleYet ==
    [ok |-> FALSE, hasURL |-> FALSE, url |-> EmptyURL, err |-> NoError]

NoHandleBut(e) == [ok |-> FALSE, hasURL |-> FALSE, url |-> EmptyURL, err |-> e]

\* The base URL's path with a '/' appended if it does not end in one.
EnsureTrailingSlash(pth) ==
    IF EndsWith(pth, <<"/">>) THEN pth ELSE pth \o <<"/">>

\* newHTTP: parse, then the scheme check, then the trailing slash.
newHTTP(raw) ==
    LET parsed == ParseURL(raw)
    IN  IF ~parsed.ok
        THEN NoHandleBut(ParseFailed)
        ELSE IF parsed.url.scheme \notin {SchemeHTTP, SchemeHTTPS}
        THEN NoHandleBut(OnlyHTTP)
        ELSE [ok |-> TRUE, hasURL |-> TRUE,
              url |-> [parsed.url EXCEPT !.path = EnsureTrailingSlash(@)],
              err |-> NoError]

\* fakeConnectionPool.HTTP: url, _ := url.Parse(baseURL); the error is
\* dropped and the handle is returned with whatever url is.
mockHTTP(raw) ==
    LET parsed == ParseURL(raw)
    IN  [ok |-> TRUE, hasURL |-> parsed.ok, url |-> parsed.url,
         err |-> NoError]

poolHTTPUnchecked(raw) == mockHTTP(raw)

\* pool.HTTP: return newHTTP(baseURL, pool.netHTTPClient)
poolHTTP(raw) == newHTTP(raw)

NewHTTPOnFreshHandle(raw) ==
    LET parsed == ParseURL(raw)
    IN  IF newHTTP(raw).ok
        THEN [newHTTP(raw) EXCEPT !.url = parsed.url]
        ELSE newHTTP(raw)

\* NewHTTP: return NewConnectionPool(config).HTTP(baseURL)
NewHTTP(raw) == poolHTTP(raw)

(***************************************************************************)
(* The construction of a handle and one Do on it.                          *)
(***************************************************************************)
URLIdle ==
    /\ baseURL = <<>>
    /\ kind = "none"
    /\ handle = NoHandleYet
    /\ uPc = "unused"
    /\ doPath = <<>>
    /\ reqURL = EmptyURL
    /\ netCalls = 0

\* A base URL and a constructor are chosen; the pool is a default one and
\* no caller of the gate runs.
InitURL ==
    /\ baseURL \in BaseURLs
    /\ kind \in Kinds
    /\ handle = NoHandleYet
    /\ uPc = "new"
    /\ doPath = <<>>
    /\ reqURL = EmptyURL
    /\ netCalls = 0
    /\ config = [PoolSize |-> 0]
    /\ capacity = newThrottledHTTPClient(NewConnectionPool(config)).cap
    /\ sem = [g \in Gates |->
                newThrottledHTTPClient(NewConnectionPool(config)).len]
    /\ handleExec = [h \in Handles |-> PoolHTTPExecutor(h)]
    /\ pc = [c \in Callers |-> "idle"]
    /\ on = [c \in Callers |-> NoGate]
    /\ via = [c \in Callers |-> NoHandle]
    /\ innerRet = [c \in Callers |-> NoOutcome]
    /\ ret = [c \in Callers |-> NoOutcome]
    /\ calls = [c \in Callers |-> 0]
    /\ requests = <<>>
    /\ builder = NoBuilder
    /\ exch = NoExchange

\* The constructor runs on the base URL.
Construct ==
    /\ uPc = "new"
    /\ handle' = (CASE kind = "NewHTTP" -> NewHTTP(baseURL)
                    [] kind = "poolHTTP" -> poolHTTP(baseURL)
                    [] kind = "mockHTTP" -> mockHTTP(baseURL))
    /\ uPc' = IF handle'.ok THEN "built" ELSE "failed"
    /\ UNCHANGED <<baseURL, kind, doPath, reqURL, netCalls>>
    /\ UNCHANGED <<gateVars, jsonVars>>

\* fakeHTTP.Do, first step: requestable.HTTPRequest(fake.URL).  The path is
\* parsed with its leading slashes trimmed and the parse error dropped; the
\* base URL resolves it.  A nil base URL or a nil parsed path is
\* dereferenced there, which panics.
DoHTTPRequest(pth) ==
    /\ uPc = "built"
    /\ kind = "mockHTTP"
    /\ doPath' = pth
    /\ LET ref == ParseURL(TrimLeftSlash(pth))
       IN  IF ~handle.hasURL \/ ~ref.ok
           THEN /\ uPc' = "panicked"
                /\ UNCHANGED reqURL
           ELSE /\ uPc' = "resolved"
                /\ reqURL' = ResolveReference(handle.url, ref.url)
    /\ UNCHANGED <<baseURL, kind, handle, netCalls>>
    /\ UNCHANGED <<gateVars, jsonVars>>

\* fakeHTTP.Do, second step: fake.Client.Do(req) reaches the transport,
\* which returns its configured response or its forced error; the error is
\* returned to the caller of Do.
DoExecute(o) ==
    /\ uPc = "resolved"
    /\ netCalls' = netCalls + 1
    /\ uPc' = IF o = "err" THEN "returned error" ELSE "executed"
    /\ UNCHANGED <<baseURL, kind, handle, doPath, reqURL>>
    /\ UNCHANGED <<gateVars, jsonVars>>

\* fakeHTTP.Do, last step: res.Body.Close() and the responder's
\* OnHTTPResponse, whose result (nil or an error) Do returns.
DoRespond ==
    /\ uPc = "executed"
    /\ uPc' = "returned result"
    /\ UNCHANGED <<baseURL, kind, handle, doPath, reqURL, netCalls>>
    /\ UNCHANGED <<gateVars, jsonVars>>

NextURL ==
    \/ Construct
    \/ \E pth \in ReqPaths : DoHTTPRequest(pth)
    \/ \E o \in {"resp", "err"} : DoExecute(o)
    \/ DoRespond

SpecURL == InitURL /\ [][NextURL]_vars

(***************************************************************************)
(* json_request.go: the builder, HTTPRequest and OnHTTPResponse, run       *)
(* through the Do of a handle (httpmock's fakeHTTP.Do).                    *)
(***************************************************************************)
\* The most values Header calls file in one builder.
MaxHeaders == 2

\* How many times HTTPRequest is called on one builder.
MaxResolves == 2

\* A variant that never reports an encoding failure.
EncodeBodyLenient(body) == [ok |-> TRUE, err |-> NilError]

\* json.NewEncoder(body).Encode(request.body)
EncodeBody(body) ==
    IF body = "unencodable"
    THEN [ok |-> FALSE, err |-> ErrorOf("json.UnsupportedTypeError", 0)]
    ELSE [ok |-> TRUE, err |-> NilError]

\* http.NewRequest(method, urlString, body): the method is validated (an
\* empty one means GET) and the URL string is parsed again.
NewRequest(method, urlString, body) ==
    LET u == ParseURL(urlString)
    IN  IF ~ValidMethod(method)
        THEN [ok |-> FALSE, req |-> NoRequest,
              err |-> ErrorOf("net/http: invalid method", 0)]
        ELSE IF ~u.ok
        THEN [ok |-> FALSE, req |-> NoRequest, err |-> ErrorOf(ParseFailed, 0)]
        ELSE [ok |-> TRUE,
              req |-> [method |-> IF method = "" THEN "GET" ELSE method,
                       url |-> u.url, headers |-> NoHeaders, body |-> body],
              err |-> NilError]

\* A variant that trims one leading slash only.
TrimOneSlash(str) ==
    IF StartsWith(str, <<"/">>) THEN Tail(str) ELSE str

\* A variant that resolves the path as it was given.
KeepLeadingSlashes(str) == str

\* The path HTTPRequest hands to url.Parse.
RequestedPath(str) == TrimLeftSlash(str)

\* The reference HTTPRequest resolves: url.Parse(strings.TrimLeft(path, "/"))
RequestedURL(pth) == ParseURL(RequestedPath(pth))

\* The headers of the request HTTPRequest returns: the builder's values
\* added name by name, then Content-Type and Accept set.
RequestHeaders(h) ==
    LET RECURSIVE AddAll(_, _, _)
        AddAll(acc, key, vals) ==
            IF vals = <<>> THEN acc
            ELSE AddAll(HeaderAdd(acc, key, Head(vals)), key, Tail(vals))
        RECURSIVE Copy(_, _)
        Copy(acc, keys) ==
            IF keys = {} THEN acc
            ELSE LET k == CHOOSE x \in keys : TRUE
                 IN  Copy(AddAll(acc, k, h[k]), keys \ {k})
        added == Copy(NoHeaders, HeaderKeys)
    IN  HeaderSet(HeaderSet(added, "Content-Type", "application/json"),
                  "Accept", "application/json")

\* jsonRequest.HTTPRequest(baseURL) for a non-nil baseURL, as a function of
\* the builder: whether it panics, the builder afterwards, and what it
\* returns.
\* A variant that resolves against the URL an earlier call left in the
\* builder.
ResolutionBaseEmbedded(b, base) == IF b.hasURL THEN b.URL ELSE base

\* The URL the requested path is resolved against: the baseURL argument.
ResolutionBase(b, base) == base

HTTPRequestOf(b, base) ==
    LET ref == RequestedURL(b.path)
        resolved == ResolveReference(ResolutionBase(b, base), ref.url)
        after == [b EXCEPT !.hasURL = TRUE, !.URL = resolved]
        enc == IF b.body = "nil" THEN [ok |-> TRUE, err |-> NilError]
               ELSE EncodeBody(b.body)
        made == NewRequest(b.method, URLString(resolved),
                           IF b.body = "nil" THEN "empty" ELSE "json")
        none == [panics |-> FALSE, builder |-> after, hasReq |-> FALSE,
                 req |-> NoRequest, hasResponder |-> FALSE, err |-> NilError]
    IN  IF ~ref.ok
        THEN [none EXCEPT !.panics = TRUE, !.builder = b]
        ELSE IF ~enc.ok
        THEN [none EXCEPT !.err = enc.err]
        ELSE IF ~made.ok
        THEN [none EXCEPT !.err = made.err]
        ELSE [none EXCEPT !.hasReq = TRUE, !.hasResponder = TRUE,
                          !.req = [made.req EXCEPT
                                     !.headers = RequestHeaders(b.headers)]]

\* A variant that takes the text {[ for an empty document.
DecodeLenient(body, target) ==
    IF body = "empty"
    THEN [err |-> ErrorOf("io.EOF", 0), wrote |-> FALSE]
    ELSE [err |-> NilError, wrote |-> TRUE]

\* json.Decoder.Decode(target) on a response body: a syntax error for {[,
\* io.EOF for an empty body, and for a JSON document an
\* InvalidUnmarshalError when the target is no pointer, else the target is
\* written.
Decode(body, target) ==
    CASE body = "malformed" ->
            [err |-> ErrorOf("json.SyntaxError", 0), wrote |-> FALSE]
      [] body = "empty" ->
            [err |-> ErrorOf("io.EOF", 0), wrote |-> FALSE]
      [] OTHER ->
            IF TargetKind[target] = "value"
            THEN [err |-> ErrorOf("json.InvalidUnmarshalError", 0),
                  wrote |-> FALSE]
            ELSE [err |-> NilError, wrote |-> TRUE]

\* A variant in which only statuses below 200 take the success path.
IsSuccessStatusBelow200(code) == code < 200

\* res.StatusCode < http.StatusBadRequest
IsSuccessStatus(code) == code < 400

\* A variant that finds no registered error.
StatusErrorIgnored(b, code) == NoStatusError

\* responder.statusErrors[res.StatusCode]
StatusErrorFor(b, code) ==
    IF code \in DOMAIN b.statusErrors THEN b.statusErrors[code]
    ELSE NoStatusError

\* A variant in which AsError never returns nil.
AsErrorNeverNil(target) == ErrorOf("AsError", target)

\* v.AsError() for an Errorable failure target.
AsError(target) ==
    IF TargetKind[target] = "ErrorableNil" THEN NilError
    ELSE ErrorOf("AsError", target)

\* A variant of the type switch that tries error before Errorable.
FailureResultErrorFirst(target, default) ==
    CASE TargetKind[target] \in {"error", "both"} -> ErrorOf("target", target)
      [] TargetKind[target] \in {"Errorable", "ErrorableNil"} ->
            AsError(target)
      [] OTHER -> default

\* The type switch on the decoded failure target.
FailureResult(target, default) ==
    CASE TargetKind[target] \in {"Errorable", "both", "ErrorableNil"} ->
            AsError(target)
      [] TargetKind[target] = "error" -> ErrorOf("target", target)
      [] OTHER -> default

\* A variant that returns nil when the success target cannot be decoded.
SuccessResultLenient(d) == NilError

\* return decoder.Decode(responder.success)
SuccessResult(d) == d.err

\* responder.failure == nil
HasNoFailure(b) == b.failure = NoTarget

\* jsonRequest.OnHTTPResponse(res): the error returned, the targets written,
\* the number of Decode calls made and the fields of the responder whose
\* target was handed to Decode.
OnHTTPResponse(b, res) ==
    LET default == DefaultError(b.method, b.path, b.URL, res.status)
        override == StatusErrorFor(b, res.status)
    IN  IF IsSuccessStatus(res.status)
        THEN IF b.success # NoTarget
             THEN LET d == Decode(res.body, b.success)
                  IN  [err |-> SuccessResult(d),
                       written |-> IF d.wrote THEN {b.success} ELSE {},
                       decodes |-> 1, into |-> {"success"}]
             ELSE [err |-> NilError, written |-> {}, decodes |-> 0,
                   into |-> {}]
        ELSE IF override.ok
        THEN [err |-> override.err, written |-> {}, decodes |-> 0,
              into |-> {}]
        ELSE IF HasNoFailure(b)
        THEN [err |-> default, written |-> {}, decodes |-> 0, into |-> {}]
        ELSE LET d == Decode(res.body, b.failure)
             IN  IF d.err # NilError
                 THEN [err |-> d.err, written |-> {}, decodes |-> 1,
                       into |-> {"failure"}]
                 ELSE [err |-> FailureResult(b.failure, default),
                       written |-> {b.failure}, decodes |-> 1,
                       into |-> {"failure"}]

\* What http.Client.Do returns when the transport fails.
ExecutorError == ErrorOf("executor", 0)

\* A variant in which a failed executor is taken for an empty response.
AfterExecuteLenient(o) == "executed"

\* fakeHTTP.Do after fake.Client.Do(req): return the error, or go on.
AfterExecute(o) == IF o = "err" THEN "executor failed" ELSE "executed"

(***************************************************************************)
(* The build phase.                                                        *)
(***************************************************************************)
\* The builder after request.Header(name, value).
WithHeader(b, name, value) == [b EXCEPT !.headers = HeaderAdd(@, name, value)]

\* The builder after request.Body(body).
WithBody(b, body) == [b EXCEPT !.body = body]

\* The builder after request.Response(target): both targets are set.
WithResponse(b, target) == [b EXCEPT !.success = target, !.failure = target]

\* A variant of Success that also forgets the failure target.
WithSuccessOnly(b, target) ==
    [b EXCEPT !.success = target, !.failure = NoTarget]

\* The builder after request.Success(target).
WithSuccess(b, target) == [b EXCEPT !.success = target]

\* The builder after request.Failure(target).
WithFailure(b, target) == [b EXCEPT !.failure = target]

\* The builder after request.StatusError(code, err).
WithStatusError(b, code, err) ==
    [b EXCEPT !.statusErrors[code] = [ok |-> TRUE, err |-> err]]

Header(name, value) ==
    /\ exch.pc = "building"
    /\ CountValues(builder.headers, HeaderKeys) < MaxHeaders
    /\ builder' = WithHeader(builder, name, value)
    /\ UNCHANGED <<exch, gateVars, urlVars>>

Body(body) ==
    /\ exch.pc = "building"
    /\ builder' = WithBody(builder, body)
    /\ UNCHANGED <<exch, gateVars, urlVars>>

Response(target) ==
    /\ exch.pc = "building"
    /\ builder' = WithResponse(builder, target)
    /\ UNCHANGED <<exch, gateVars, urlVars>>

Success(target) ==
    /\ exch.pc = "building"
    /\ builder' = WithSuccess(builder, target)
    /\ UNCHANGED <<exch, gateVars, urlVars>>

Failure(target) ==
    /\ exch.pc = "building"
    /\ builder' = WithFailure(builder, target)
    /\ UNCHANGED <<exch, gateVars, urlVars>>

StatusError(code, err) ==
    /\ exch.pc = "building"
    /\ builder' = WithStatusError(builder, code, err)
    /\ UNCHANGED <<exch, gateVars, urlVars>>

(***************************************************************************)
(* fakeHTTP.Do(requestable), step by step.                                 *)
(***************************************************************************)
\* requestable.HTTPRequest(fake.URL); an error ends Do.
HTTPRequest ==
    /\ exch.pc = "building"
    /\ LET r == HTTPRequestOf(builder, exch.base)
       IN  /\ builder' = r.builder
           /\ exch' = [exch EXCEPT
                         !.pc = IF r.panics THEN "panicked"
                                ELSE IF r.hasReq THEN "resolved"
                                ELSE "request failed",
                         !.hasReq = r.hasReq,
                         !.req = r.req,
                         !.hasResponder = r.hasResponder,
                         !.err = r.err,
                         !.resolves = 1]
    /\ UNCHANGED <<gateVars, urlVars>>

\* A caller that holds the builder calls HTTPRequest on it once more, with
\* the same base URL.
HTTPRequestAgain ==
    /\ exch.pc \in {"resolved", "request failed"}
    /\ exch.resolves < MaxResolves
    /\ LET r == HTTPRequestOf(builder, exch.base)
       IN  /\ builder' = r.builder
           /\ exch' = [exch EXCEPT
                         !.pc = IF r.panics THEN "panicked"
                                ELSE IF r.hasReq THEN "resolved"
                                ELSE "request failed",
                         !.prev = [hasReq |-> exch.hasReq, req |-> exch.req,
                                   err |-> exch.err],
                         !.hasReq = r.hasReq,
                         !.req = r.req,
                         !.hasResponder = r.hasResponder,
                         !.err = r.err,
                         !.resolves = @ + 1]
    /\ UNCHANGED <<gateVars, urlVars>>

\* fake.Client.Do(req): the transport returns its response or its error.
Execute(o, res) ==
    /\ exch.pc = "resolved"
    /\ exch' = [exch EXCEPT
                  !.pc = AfterExecute(o),
                  !.execCalls = @ + 1,
                  !.res = IF o = "err" THEN NoResponse ELSE res,
                  !.err = IF o = "err" THEN ExecutorError ELSE NilError]
    /\ UNCHANGED <<builder, gateVars, urlVars>>

\* What Do does with the response, in order: res.Body.Close() and then
\* responder.OnHTTPResponse(res), whose Decode calls read the body.
BodyEvents(decodes) ==
    <<"Body.Close">> \o [i \in 1..decodes |-> "Decode"]

\* res.Body.Close(); return responder.OnHTTPResponse(res)
Respond ==
    /\ exch.pc = "executed"
    /\ LET r == OnHTTPResponse(builder, exch.res)
       IN  exch' = [exch EXCEPT
                      !.pc = "responded",
                      !.log = BodyEvents(r.decodes),
                      !.respCalls = @ + 1,
                      !.err = r.err,
                      !.written = r.written,
                      !.decodes = r.decodes,
                      !.into = r.into]
    /\ UNCHANGED <<builder, gateVars, urlVars>>

\* The gate of a default pool with no caller running.
GateQuiet ==
    /\ config = [PoolSize |-> 0]
    /\ capacity = newThrottledHTTPClient(NewConnectionPool(config)).cap
    /\ sem = [g \in Gates |->
                newThrottledHTTPClient(NewConnectionPool(config)).len]
    /\ handleExec = [h \in Handles |-> PoolHTTPExecutor(h)]
    /\ pc = [c \in Callers |-> "idle"]
    /\ on = [c \in Callers |-> NoGate]
    /\ via = [c \in Callers |-> NoHandle]
    /\ innerRet = [c \in Callers |-> NoOutcome]
    /\ ret = [c \in Callers |-> NoOutcome]
    /\ calls = [c \in Callers |-> 0]
    /\ requests = <<>>

\* The base URLs of the handles the requests are sent on.
ReqBases ==
    {SchemeHTTP \o <<":", "/", "/", "e">> \o pth :
        pth \in {<<>>, <<"/", "d", "/">>, <<"/", "d">>}}

\* Building and sending a request: any method and path, headers and a body.
InitReq ==
    /\ GateQuiet
    /\ URLIdle
    /\ builder \in {JSONRequest(m, p) : m \in Methods, p \in ReqPaths}
    /\ exch \in {NewExchange(ParseURL(b).url) : b \in ReqBases}

NextReq ==
    \/ \E n \in HeaderNames, v \in HeaderValues : Header(n, v)
    \/ \E b \in Bodies : Body(b)
    \/ HTTPRequest
    \/ \E o \in {"resp", "err"} :
          Execute(o, [status |-> 200, body |-> "valid"])
    \/ Respond

SpecReq == InitReq /\ [][NextReq]_vars

\* The calls of the build phase, as values.
BuildOp(op, name, value, body, target, code, err) ==
    [op |-> op, name |-> name, value |-> value, body |-> body,
     target |-> target, code |-> code, err |-> err]

BuildNames == {"X-A", "Accept"}

BuildTargets == {1, 2}

BuildCodes == {499}

BuildOps ==
    {BuildOp("Header", n, v, "nil", NoTarget, 0, NilError) :
        n \in BuildNames, v \in HeaderValues}
    \cup {BuildOp("Body", "", "", b, NoTarget, 0, NilError) : b \in Bodies}
    \cup {BuildOp(o, "", "", "nil", t, 0, NilError) :
             o \in {"Response", "Success", "Failure"}, t \in BuildTargets}
    \cup {BuildOp("StatusError", "", "", "nil", NoTarget, c, e) :
             c \in BuildCodes, e \in RegisteredErrors}

\* The builder after the call o.
Apply(b, o) ==
    CASE o.op = "Header" -> WithHeader(b, o.name, o.value)
      [] o.op = "Body" -> WithBody(b, o.body)
      [] o.op = "Response" -> WithResponse(b, o.target)
      [] o.op = "Success" -> WithSuccess(b, o.target)
      [] o.op = "Failure" -> WithFailure(b, o.target)
      [] o.op = "StatusError" -> WithStatusError(b, o.code, o.err)

\* Every build call in any order, then HTTPRequest, once or twice.
InitBuild ==
    /\ GateQuiet
    /\ URLIdle
    /\ builder \in {JSONRequest("OPTIONS", p) :
                       p \in {<<"s", "/", "p">>, <<"/", "s", "/", "p">>}}
    /\ exch = NewExchange(ParseURL(SchemeHTTP
                              \o <<":", "/", "/", "e", "/", "d", "/">>).url)

NextBuild ==
    \/ \E n \in BuildNames, v \in HeaderValues : Header(n, v)
    \/ \E b \in Bodies : Body(b)
    \/ \E t \in BuildTargets : Response(t)
    \/ \E t \in BuildTargets : Success(t)
    \/ \E t \in BuildTargets : Failure(t)
    \/ \E c \in BuildCodes, e \in RegisteredErrors : StatusError(c, e)
    \/ HTTPRequest
    \/ HTTPRequestAgain

SpecBuild == InitBuild /\ [][NextBuild]_vars

\* Registering targets and status errors and resolving a response.
InitResp ==
    /\ GateQuiet
    /\ URLIdle
    /\ builder \in {JSONRequest(m, <<"/", "s", "/", "p">>) :
                       m \in {"", "OPTIONS"}}
    /\ exch = NewExchange(ParseURL(SchemeHTTP \o <<":", "/", "/", "e">>).url)

NextResp ==
    \/ \E t \in Targets : Response(t)
    \/ \E t \in Targets : Success(t)
    \/ \E t \in Targets : Failure(t)
    \/ \E c \in OverrideCodes, e \in RegisteredErrors : StatusError(c, e)
    \/ HTTPRequest
    \/ \E o \in {"resp", "err"}, s \in StatusCodes, b \in ResponseBodies :
          Execute(o, [status |-> s, body |-> b])
    \/ Respond

SpecResp == InitResp /\ [][NextResp]_vars

(***************************************************************************)
(* Do of a handle of a pool: the steps of fakeHTTP.Do with the throttled   *)
(* client of the pool as its executor, for one request.                    *)
(***************************************************************************)
\* throttledClient.Lock() in throttledHTTPClient.Do.
Admit ==
    /\ exch.pc = "resolved"
    /\ CanSend(sem[PoolGate], capacity)
    /\ sem' = [sem EXCEPT ![PoolGate] = @ + 1]
    /\ exch' = [exch EXCEPT !.pc = "admitted"]
    /\ UNCHANGED <<config, capacity, handleExec, pc, on, via, innerRet, ret,
                   calls, requests>>
    /\ UNCHANGED <<builder, urlVars>>

\* A variant in which the underlying executor is called without Lock.
MayEnterExecutorUnlocked(stage) == stage \in {"resolved", "admitted"}

\* throttledHTTPClient.Do calls the underlying Do after Lock has returned.
MayEnterExecutor(stage) == stage = "admitted"

\* throttledClient.netHTTPClient.Do(req): the underlying executor.
Run(o, res) ==
    /\ MayEnterExecutor(exch.pc)
    /\ exch' = [exch EXCEPT
                  !.pc = "ran",
                  !.execCalls = @ + 1,
                  !.res = IF o = "err" THEN NoResponse ELSE res,
                  !.err = IF o = "err" THEN ExecutorError ELSE NilError]
    /\ UNCHANGED <<builder, gateVars, urlVars>>

\* The deferred Unlock; Do goes on with what the executor returned.
Release ==
    /\ exch.pc = "ran"
    /\ CanReceive(sem[PoolGate])
    /\ sem' = [sem EXCEPT ![PoolGate] = SemAfterUnlock(@)]
    /\ exch' = [exch EXCEPT
                  !.pc = AfterExecute(IF exch.err = ExecutorError
                                      THEN "err" ELSE "resp")]
    /\ UNCHANGED <<config, capacity, handleExec, pc, on, via, innerRet, ret,
                   calls, requests>>
    /\ UNCHANGED <<builder, urlVars>>

\* One request on a handle of a default pool.
InitPipe ==
    /\ GateQuiet
    /\ URLIdle
    /\ builder \in {JSONRequest(m, p) :
                       m \in Methods,
                       p \in {<<"s", "/", "p">>, <<"/", "s", "/", "p">>}}
    /\ exch = NewExchange(ParseURL(SchemeHTTP
                              \o <<":", "/", "/", "e", "/", "d", "/">>).url)

NextPipe ==
    \/ \E b \in Bodies : Body(b)
    \/ \E t \in BuildTargets : Response(t)
    \/ HTTPRequest
    \/ Admit
    \/ \E o \in {"resp", "err"}, st \in {200, 404}, b \in ResponseBodies :
          Run(o, [status |-> st, body |-> b])
    \/ Release
    \/ Respond

SpecPipe == InitPipe /\ [][NextPipe]_vars

\* make(semaphore, size) panics for a negative size.
MakePanics(size) == size < 0

\* A gate built by newThrottledHTTPClient itself, as the tests of the
\* throttled client build it, with any requested size: no pool is involved.
\* Where make panics no gate exists and no Do is ever called.
InitDirect ==
    /\ config \in [PoolSize : PoolSizes]
    /\ capacity = newThrottledHTTPClient(config.PoolSize).cap
    /\ sem = [g \in Gates |-> newThrottledHTTPClient(config.PoolSize).len]
    /\ handleExec = [h \in Handles |-> PoolHTTPExecutor(h)]
    /\ pc = [c \in Callers |->
               IF MakePanics(config.PoolSize) THEN "no gate" ELSE "idle"]
    /\ on = [c \in Callers |-> NoGate]
    /\ via = [c \in Callers |-> NoHandle]
    /\ innerRet = [c \in Callers |-> NoOutcome]
    /\ ret = [c \in Callers |-> NoOutcome]
    /\ calls = [c \in Callers |-> 0]
    /\ requests = <<>>
    /\ URLIdle
    /\ JSONIdle

SpecDirect == InitDirect /\ [][NextGate]_vars

Init == InitGate /\ URLIdle /\ JSONIdle

Next == NextGate

Spec == Init /\ [][Next]_vars

(***************************************************************************)
(* The same program under fair scheduling: a started goroutine runs, a     *)
(* goroutine whose send can complete is scheduled, and every call of the   *)
(* underlying executor terminates.                                         *)
(***************************************************************************)
LiveSpec ==
    /\ Init
    /\ [][Next]_vars
    /\ \A c \in Callers :
          /\ WF_vars(Start(c))
          /\ WF_vars(\E h \in Handles : Lock(c, h))
          /\ WF_vars(\E o \in Outcomes : InnerDo(c, o))
          /\ WF_vars(Unlock(c))

(***************************************************************************)
(* Derived quantities.                                                     *)
(***************************************************************************)
\* The callers inside the underlying executor through executor g.
InFlight(g) == {c \in Callers : pc[c] = "inner" /\ on[c] = g}

\* The callers between acquire and release on executor g.
Holding(g) == {c \in Callers : pc[c] \in {"inner", "returned"} /\ on[c] = g}

\* The callers inside the underlying executor through handle h.
InFlightVia(h) == {c \in Callers : pc[c] = "inner" /\ via[c] = h}

RECURSIVE SumInFlight(_)
SumInFlight(n) ==
    IF n = 0 THEN 0 ELSE Cardinality(InFlightVia(n)) + SumInFlight(n - 1)

AllDone == \A c \in Callers : pc[c] = "done"

Occurrences(seq, x) == Cardinality({i \in 1..Len(seq) : seq[i] = x})

(***************************************************************************)
(* Claims.                                                                 *)
(***************************************************************************)

\* C1: for a gate built with capacity N >= 1 and any number of concurrent
\* callers, the number of calls inside the underlying executor is at most N
\* in every reachable state.
C1_InFlightAtMostCapacity ==
    \A g \in Gates :
        NewConnectionPool(config) >= 1 =>
            Cardinality(InFlight(g)) <= NewConnectionPool(config)

\* C1 witness: the gate is full and a started caller is kept waiting.
C1_Witness_GateFullCallerWaits ==
    /\ Cardinality(InFlight(PoolGate)) = capacity
    /\ \E c \in Callers : pc[c] = "started"

\* C2: a permit is released exactly once per acquire on every exit path
\* (response, error, panic): the outstanding permits are exactly the callers
\* between acquire and release, stay within 0..capacity, and are all back
\* once every Do has exited.
C2_PermitsMatchHolders ==
    \A g \in Gates :
        /\ sem[g] = Cardinality(Holding(g))
        /\ sem[g] \in 0..capacity
        /\ AllDone => sem[g] = 0

\* C2 witness: every Do has exited, one by each exit path, and no permit is
\* outstanding.
C2_Witness_AllExitPathsTaken ==
    /\ AllDone
    /\ \A o \in Outcomes : \E c \in Callers : innerRet[c] = o
    /\ sem[PoolGate] = 0

\* C3: under fair scheduling, with every underlying call terminating, every
\* started Do is eventually admitted and eventually returns, and no Do ends
\* without having entered the underlying executor (saturation never turns
\* into a rejection).
C3_EveryCallAdmittedAndReturns ==
    /\ \A c \in Callers :
          (pc[c] = "started") ~> (pc[c] = "done" /\ calls[c] = 1)
    /\ [](\A c \in Callers : pc[c] = "done" => calls[c] = 1)

\* C3 witness: more callers than permits, so some caller had to wait, and
\* every one of them has returned.
C3_Witness_AllReturnedThoughSaturated ==
    /\ AllDone
    /\ capacity < NumCallers
    /\ \A c \in Callers : calls[c] = 1

C5_ThrottledDoIsTransparent ==
    /\ \A c \in Callers :
          /\ calls[c] = (IF pc[c] \in {"idle", "started"} THEN 0 ELSE 1)
          /\ Occurrences(requests, RequestOf(c)) =
                (IF pc[c] \in {"returned", "done"} THEN 1 ELSE 0)
          /\ pc[c] = "done" => ret[c] = innerRet[c]
    /\ Len(requests) <= NumCallers
    /\ AllDone => Len(requests) = NumCallers

\* C5 witness: all calls returned, one of them with the underlying error.
C5_Witness_AllReturnedOneError ==
    /\ AllDone
    /\ Len(requests) = NumCallers
    /\ \E c \in Callers : ret[c] = "err" /\ innerRet[c] = "err"

\* C6: NewConnectionPool builds a gate of capacity Config.PoolSize when
\* PoolSize > 0 and of the default capacity 8 when PoolSize <= 0.
C6_PoolCapacity ==
    capacity = (IF config.PoolSize > 0 THEN config.PoolSize ELSE 8)

\* C6 witness: a pool configured with a non-positive size admits more
\* callers at once than any configured size of the model would.
C6_Witness_DefaultCapacityInUse ==
    /\ config.PoolSize <= 0
    /\ capacity = 8
    /\ Cardinality(InFlight(PoolGate)) = NumCallers

\* C7: all handles of a pool share one admission gate: every handle holds
\* the pool's executor, and the in-flight underlying calls summed over all
\* handles never exceed the pool size.
C7_HandlesShareOneGate ==
    /\ \A h \in Handles : handleExec[h] = PoolGate
    /\ SumInFlight(NumHandles) <= capacity

\* C7 witness: two calls through two different handles are in flight and
\* together they fill the pool.
C7_Witness_TwoHandlesFillPool ==
    \E c, d \in Callers :
        /\ pc[c] = "inner" /\ pc[d] = "inner"
        /\ via[c] # via[d]
        /\ SumInFlight(NumHandles) = capacity
        /\ \E e \in Callers : pc[e] = "started"

(***************************************************************************)
(* Claims about handle construction, checked under SpecURL.                *)
(***************************************************************************)
\* The base URL begins with "http:" or "https:".
HasHTTPScheme(raw) ==
    \/ StartsWith(raw, SchemeHTTP \o <<":">>)
    \/ StartsWith(raw, SchemeHTTPS \o <<":">>)

\* C8: eager handle construction (NewHTTP, newHTTP through pool.HTTP) fails,
\* produces no handle and makes no network call when the base URL is not
\* an absolute http or https URL, and fails with exactly "Only http and
\* https are supported" when the URL parses with any other scheme.
C8_EagerConstructionRejects ==
    (kind \in {"NewHTTP", "poolHTTP"} /\ uPc # "new") =>
        /\ ~HasHTTPScheme(baseURL) =>
              /\ uPc = "failed"
              /\ ~handle.ok /\ ~handle.hasURL
              /\ handle.err # NoError
              /\ netCalls = 0
        /\ (ParseURL(baseURL).ok /\ ~HasHTTPScheme(baseURL)) =>
              handle.err = "Only http and https are supported"

\* C8 witness: NewHTTP on ftp://e has failed with the scheme error.
C8_Witness_FTPRejected ==
    /\ kind = "NewHTTP"
    /\ baseURL = SchemeFTP \o <<":", "/", "/", "e">>
    /\ uPc = "failed"
    /\ handle.err = "Only http and https are supported"

\* C9: for every accepted base URL the stored path ends in '/': a path
\* without a trailing slash got exactly one appended, a path ending in '/'
\* is unchanged, and constructing again from the stored URL changes nothing.
C9_TrailingSlashNormalised ==
    (kind \in {"NewHTTP", "poolHTTP"} /\ handle.ok) =>
        LET given == ParseURL(baseURL).url.path
            stored == handle.url.path
        IN  /\ EndsWith(stored, <<"/">>)
            /\ EndsWith(given, <<"/">>) => stored = given
            /\ ~EndsWith(given, <<"/">>) => stored = given \o <<"/">>
            /\ NewHTTP(URLString(handle.url)) = handle

\* C9 witness: NewHTTP on http://e stores http://e/.
C9_Witness_SlashAppended ==
    /\ kind = "NewHTTP"
    /\ baseURL = SchemeHTTP \o <<":", "/", "/", "e">>
    /\ handle.ok
    /\ handle.url.path = <<"/">>
    /\ URLString(handle.url) = SchemeHTTP \o <<":", "/", "/", "e", "/">>

\* C10, for the pool whose HTTP is in the sources in full (the mock pool):
\* HTTP(baseURL) returns a handle and no error for every base URL, and a
\* later Do on that handle ends by returning a result or an error value,
\* never by a panic.
C10_HandleAlwaysUsable ==
    kind = "mockHTTP" =>
        /\ uPc # "new" => (handle.ok /\ handle.err = NoError)
        /\ uPc # "panicked"

(***************************************************************************)
(* Claims about building and sending a request, checked under SpecReq.     *)
(***************************************************************************)
\* str without the '/' characters it begins with.
WithoutLeadingSlashes(str) ==
    LET n == CHOOSE k \in 0..Len(str) :
                 /\ \A i \in 1..k : str[i] = "/"
                 /\ k = Len(str) \/ str[k + 1] # "/"
    IN  SubSeq(str, n + 1, Len(str))

\* C11: HTTPRequest strips all leading slashes of the builder's path before
\* resolving it, so on a base URL whose path ends in '/' the resolved path
\* is the base path followed by the requested path without its leading
\* slashes; base http://e/d/ with path /s/p resolves to /d/s/p.
C11_LeadingSlashesStripped ==
    (builder.hasURL /\ EndsWith(exch.base.path, <<"/">>)) =>
        /\ builder.URL.path =
              exch.base.path \o WithoutLeadingSlashes(builder.path)
        /\ exch.hasReq => exch.req.url.path = builder.URL.path
        /\ (exch.base.path = <<"/", "d", "/">>
              /\ builder.path = <<"/", "s", "/", "p">>) =>
                 builder.URL.path = <<"/", "d", "/", "s", "/", "p">>

\* C11 witness: the path //s was sent on base http://e/d/ as /d/s.
C11_Witness_TwoSlashesStripped ==
    /\ exch.hasReq
    /\ exch.base.path = <<"/", "d", "/">>
    /\ builder.path = <<"/", "/", "s">>
    /\ exch.req.url.path = <<"/", "d", "/", "s">>

\* C12 as claimed: on base http://e/d/ the requested path /s/p discards the
\* base path and is sent as /s/p, while s/p is sent as /d/s/p.
C12_RootedPathDiscardsBase ==
    (exch.hasReq /\ exch.base.path = <<"/", "d", "/">>) =>
        /\ builder.path = <<"/", "s", "/", "p">> =>
              exch.req.url.path = <<"/", "s", "/", "p">>
        /\ builder.path = <<"s", "/", "p">> =>
              exch.req.url.path = <<"/", "d", "/", "s", "/", "p">>

\* C12 as amended: on base http://e/d/ the requested paths /s/p and s/p
\* are both sent as /d/s/p, to http://e/d/s/p; the base path is kept.
C12_RootedPathKeepsBase ==
    (exch.hasReq /\ exch.base.path = <<"/", "d", "/">>
        /\ builder.path \in {<<"/", "s", "/", "p">>, <<"s", "/", "p">>}) =>
        /\ exch.req.url.path = <<"/", "d", "/", "s", "/", "p">>
        /\ URLString(exch.req.url) =
              SchemeHTTP \o <<":", "/", "/", "e", "/", "d", "/", "s", "/", "p">>

\* C12 witness: the rooted path /s/p was sent on base http://e/d/ and the
\* request path is not /s/p.
C12_Witness_RootedPathUnderBase ==
    /\ exch.pc = "responded"
    /\ exch.base.path = <<"/", "d", "/">>
    /\ builder.path = <<"/", "s", "/", "p">>
    /\ exch.req.url.path # <<"/", "s", "/", "p">>

\* C13: when encoding the request body as JSON fails, HTTPRequest returns
\* that error with no request and no responder, and Do returns the error
\* without calling the executor: no permit is taken, no network call is
\* made and the responder is never invoked.
C13_EncodingFailureAbortsRequest ==
    (builder.body = "unencodable"
        /\ exch.pc \notin {"building", "panicked"}) =>
        /\ exch.pc = "request failed"
        /\ ~exch.hasReq /\ ~exch.hasResponder
        /\ exch.err.kind = "json.UnsupportedTypeError"
        /\ exch.execCalls = 0 /\ exch.respCalls = 0
        /\ exch.decodes = 0
        /\ \A g \in Gates : sem[g] = 0

\* C13 witness: a request with a valid method and a body that cannot be
\* encoded has failed in HTTPRequest.
C13_Witness_UnencodableBodyFailed ==
    /\ exch.pc = "request failed"
    /\ builder.body = "unencodable"
    /\ ValidMethod(builder.method)
    /\ builder.hasURL
    /\ exch.execCalls = 0

\* C14: every request HTTPRequest produces carries exactly the one value
\* application/json for Content-Type and for Accept, whatever the caller
\* set for those names through Header, and every other header of the
\* caller unchanged.
C14_JSONHeadersForced ==
    exch.hasReq =>
        /\ exch.req.headers["Content-Type"] = <<"application/json">>
        /\ exch.req.headers["Accept"] = <<"application/json">>
        /\ \A k \in HeaderKeys \ {"Content-Type", "Accept"} :
              exch.req.headers[k] = builder.headers[k]

\* C14 witness: the caller set content-type to text/plain and gave X-A a
\* value; the request was produced.
C14_Witness_CallerContentTypeReplaced ==
    /\ exch.hasReq
    /\ builder.headers["Content-Type"] = <<"text/plain">>
    /\ builder.headers["X-A"] = <<"v">>
    /\ exch.req.headers["X-A"] = <<"v">>

(***************************************************************************)
(* Claims about resolving a response, checked under SpecResp.              *)
(***************************************************************************)
\* OnHTTPResponse has run on a response of status s: below 400 or not.
RespondedBelow400 == exch.pc = "responded" /\ exch.res.status < 400

RespondedFrom400 == exch.pc = "responded" /\ exch.res.status >= 400

\* An error is registered for exactly the status of the response.
OverrideMatches ==
    /\ exch.res.status \in OverrideCodes
    /\ builder.statusErrors[exch.res.status].ok

\* The error json.Decoder.Decode gives for a response body into target t,
\* "none" when it succeeds.
DecodeErrorKind(body, t) ==
    CASE body = "malformed" -> "json.SyntaxError"
      [] body = "empty" -> "io.EOF"
      [] body = "valid" /\ TargetKind[t] = "value" ->
            "json.InvalidUnmarshalError"
      [] OTHER -> "none"

C16_RegisteredErrorReturned ==
    (RespondedFrom400 /\ OverrideMatches) =>
        /\ exch.err = builder.statusErrors[exch.res.status].err
        /\ exch.decodes = 0 /\ exch.into = {}
        /\ exch.written = {}

\* C16 witness: status 499 with a malformed body, a failure target and an
\* error registered for 499, which was returned.
C16_Witness_OverrideBeatsFailureTarget ==
    /\ RespondedFrom400
    /\ exch.res.status = 499
    /\ exch.res.body = "malformed"
    /\ builder.failure # NoTarget
    /\ builder.statusErrors[499] =
          [ok |-> TRUE, err |-> ErrorOf("registered", 1)]
    /\ exch.err = ErrorOf("registered", 1)

\* C17: for a status of 400 or more with no matching registered error and
\* a failure target: a decode failure is returned as it is; after a
\* successful decode the result is AsError() when the target is Errorable
\* (also when it is an error as well), else the target itself when it is
\* an error, else the default error.
C17_FailureTargetResult ==
    (RespondedFrom400 /\ ~OverrideMatches /\ builder.failure # NoTarget) =>
        LET t == builder.failure
            k == DecodeErrorKind(exch.res.body, t)
        IN  /\ exch.decodes = 1
            /\ k # "none" => (exch.err.kind = k /\ exch.written = {})
            /\ k = "none" =>
                  /\ exch.written = {t}
                  /\ TargetKind[t] \in {"Errorable", "both"} =>
                        exch.err = ErrorOf("AsError", t)
                  /\ TargetKind[t] = "ErrorableNil" => exch.err = NilError
                  /\ TargetKind[t] = "error" =>
                        exch.err = ErrorOf("target", t)
                  /\ TargetKind[t] = "plain" =>
                        /\ exch.err.kind =
                              "request %s %s as JSON returned status %d"
                        /\ exch.err.status = exch.res.status

\* C17 witness: a failure target that is both an Errorable and an error
\* was decoded and its AsError() result was returned.
C17_Witness_ErrorableWinsOverError ==
    /\ RespondedFrom400
    /\ ~OverrideMatches
    /\ builder.failure # NoTarget
    /\ TargetKind[builder.failure] = "both"
    /\ exch.res.body = "valid"
    /\ exch.err = ErrorOf("AsError", builder.failure)

\* C18: for a status of 400 or more with no matching registered error and
\* no failure target OnHTTPResponse returns the default error made of the
\* builder's method, the fully resolved URL of the request and the status
\* code, without reading the body.
C18_DefaultError ==
    (RespondedFrom400 /\ ~OverrideMatches /\ builder.failure = NoTarget) =>
        /\ exch.err.kind = "request %s %s as JSON returned status %d"
        /\ exch.err.method = builder.method
        /\ exch.err.url =
              SchemeHTTP \o <<":", "/", "/", "e", "/", "s", "/", "p">>
        /\ exch.err.url = URLString(exch.req.url)
        /\ exch.err.status = exch.res.status
        /\ exch.decodes = 0 /\ exch.written = {}

\* C18 witness: OPTIONS with no failure target got status 404 with a body
\* and the default error for 404.
C18_Witness_DefaultErrorFor404 ==
    /\ RespondedFrom400
    /\ builder.method = "OPTIONS"
    /\ builder.failure = NoTarget
    /\ exch.res = [status |-> 404, body |-> "valid"]
    /\ exch.err.status = 404
    /\ exch.err.method = "OPTIONS"

\* C19 as claimed: a status of 400 or more with an unparsable body, no
\* failure target and no registered error yields a JSON syntax error.
C19_SyntaxErrorWithoutFailureTarget ==
    (RespondedFrom400 /\ exch.res.body = "malformed"
        /\ ~OverrideMatches /\ builder.failure = NoTarget) =>
        exch.err.kind = "json.SyntaxError"

\* C19 as amended: a status of 400 or more with an unparsable body and no
\* matching registered error yields the JSON syntax error of the decode
\* attempt when a failure target is registered; with no failure target no
\* decode is attempted and the default error is returned.
C19_SyntaxErrorNeedsFailureTarget ==
    (RespondedFrom400 /\ exch.res.body = "malformed" /\ ~OverrideMatches) =>
        /\ builder.failure # NoTarget =>
              (exch.err.kind = "json.SyntaxError" /\ exch.decodes = 1)
        /\ builder.failure = NoTarget =>
              /\ exch.err.kind = "request %s %s as JSON returned status %d"
              /\ exch.decodes = 0

\* C19 witness: status 404 with an unparsable body and neither failure
\* target nor registered error ended with the default error.
C19_Witness_UnparsableBodyNotRead ==
    /\ RespondedFrom400
    /\ exch.res = [status |-> 404, body |-> "malformed"]
    /\ builder.failure = NoTarget
    /\ ~OverrideMatches
    /\ exch.err.kind = "request %s %s as JSON returned status %d"
    /\ exch.decodes = 0

\* C20: when the underlying executor fails, Do returns that same error,
\* the responder's OnHTTPResponse is never invoked for the request and the
\* executor is not called again.
C20_ExecutorErrorPropagates ==
    /\ exch.execCalls <= 1
    /\ (exch.execCalls = 1 /\ exch.res = NoResponse) =>
          /\ exch.pc = "executor failed"
          /\ exch.err = ErrorOf("executor", 0)
          /\ exch.respCalls = 0
          /\ exch.decodes = 0 /\ exch.written = {}

\* C20 witness: a request with headers and a body reached the executor,
\* which failed.
C20_Witness_ExecutorFailed ==
    /\ exch.pc = "executor failed"
    /\ exch.hasReq
    /\ builder.body = "encodable"
    /\ exch.execCalls = 1
    /\ exch.respCalls = 0
    /\ exch.err = ExecutorError

(***************************************************************************)
(* Claims about the order of the steps of Do.                              *)
(***************************************************************************)
\* C21: in every Do that obtains a response the response body is closed,
\* and the close comes after the responder's decoding of the body: no
\* Decode follows Body.Close.
C21_BodyClosedAfterDecoding ==
    exch.pc = "responded" =>
        /\ \E i \in 1..Len(exch.log) : exch.log[i] = "Body.Close"
        /\ \A i, j \in 1..Len(exch.log) :
              (exch.log[i] = "Body.Close" /\ exch.log[j] = "Decode") => j < i

(***************************************************************************)
(* Claims about the order of the build calls.                              *)
(***************************************************************************)
\* The fields of the builder the call o assigns.
Writes(o) ==
    CASE o.op = "Header" -> {"headers"}
      [] o.op = "Body" -> {"body"}
      [] o.op = "Response" -> {"success", "failure"}
      [] o.op = "Success" -> {"success"}
      [] o.op = "Failure" -> {"failure"}
      [] o.op = "StatusError" -> {"statusErrors"}

\* Both calls assign the same slot: a common field, and for two Header calls
\* the same canonical name, for two StatusError calls the same code.
SameSlot(o1, o2) ==
    /\ Writes(o1) \cap Writes(o2) # {}
    /\ (o1.op = "Header" /\ o2.op = "Header")
          => Canon(o1.name) = Canon(o2.name)
    /\ (o1.op = "StatusError" /\ o2.op = "StatusError") => o1.code = o2.code

\* How often value v occurs in the sequence q.
Times(q, v) == Cardinality({i \in 1..Len(q) : q[i] = v})

\* Two builders that differ at most in the order of the values under each
\* header name.
SameUpToHeaderOrder(x, y) ==
    /\ [x EXCEPT !.headers = NoHeaders] = [y EXCEPT !.headers = NoHeaders]
    /\ \A k \in HeaderKeys :
          /\ Len(x.headers[k]) = Len(y.headers[k])
          /\ \A v \in HeaderValues :
                Times(x.headers[k], v) = Times(y.headers[k], v)

\* C22 as stated: any two build calls made in either order leave the same
\* builder, up to the order of the values under a header name.
C22_BuildOrderIrrelevant ==
    exch.pc = "building" =>
        \A o1, o2 \in BuildOps :
            LET x == Apply(Apply(builder, o1), o2)
                y == Apply(Apply(builder, o2), o1)
            IN  IF o1.op = "Header" /\ o2.op = "Header"
                THEN SameUpToHeaderOrder(x, y)
                ELSE x = y

\* C22: two build calls that assign different slots leave the same builder
\* in either order; two Header calls for the same name leave the same values
\* in a different order; of two other calls that assign the same slot, the
\* later one decides the fields it assigns.
C22_BuildOrderIrrelevantAcrossSlots ==
    exch.pc = "building" =>
        \A o1, o2 \in BuildOps :
            LET x == Apply(Apply(builder, o1), o2)
                y == Apply(Apply(builder, o2), o1)
            IN  /\ ~SameSlot(o1, o2) => x = y
                /\ (SameSlot(o1, o2) /\ o1.op = "Header")
                      => SameUpToHeaderOrder(x, y)
                /\ (SameSlot(o1, o2) /\ o1.op # "Header")
                      => \A f \in Writes(o2) : x[f] = Apply(builder, o2)[f]

\* Response(1) then Success(2) was called, and the other order of the two
\* calls would have left a different builder.
C22_Witness ==
    /\ exch.pc = "building"
    /\ builder.success = 2
    /\ builder.failure = 1
    /\ WithSuccess(WithResponse(builder, 1), 2)
          # WithResponse(WithSuccess(builder, 2), 1)

(***************************************************************************)
(* Claims about calling HTTPRequest twice.                                 *)
(***************************************************************************)
\* C23: a second HTTPRequest call on the same builder with the same base URL
\* returns what the first returned: the same method, URL, headers and body,
\* or the same error.
C23_HTTPRequestRepeatable ==
    exch.resolves >= 2 =>
        exch.prev = [hasReq |-> exch.hasReq, req |-> exch.req,
                     err |-> exch.err]

\* HTTPRequest was called twice on a builder with a relative path, a header
\* and a body, and both calls returned a request.
C23_Witness ==
    /\ exch.resolves = 2
    /\ exch.hasReq
    /\ exch.prev.hasReq
    /\ builder.path = <<"s", "/", "p">>
    /\ builder.body = "encodable"
    /\ builder.headers["X-A"] # <<>>
    /\ exch.req.url = exch.prev.req.url

(***************************************************************************)
(* Claims about a gate built without a pool.                               *)
(***************************************************************************)
\* C24: a gate constructed with a requested capacity of 0 or less has
\* capacity 8 and admits every started caller while fewer than 8 calls are
\* in flight.
C24_NonPositiveCapacityIsDefault ==
    config.PoolSize <= 0 =>
        /\ capacity = DefaultPoolSize
        /\ \A c \in Callers :
              pc[c] = "started" => ENABLED (\E h \in Handles : Lock(c, h))

(***************************************************************************)
(* Claims about the stages of one request.                                 *)
(***************************************************************************)
\* The stage a request is in: Built 0, Resolved 1, Admitted 2 (the executor
\* not yet entered, or entered and not yet released), Executed 3,
\* Responded 4.  A failed resolution or execution stays in its stage.
Stage(p) ==
    CASE p = "building" -> 0
      [] p \in {"resolved", "request failed", "panicked"} -> 1
      [] p \in {"admitted", "ran"} -> 2
      [] p \in {"executed", "executor failed"} -> 3
      [] p = "responded" -> 4

\* Whether the request holds a permit of the pool's gate.
HoldsPermit == sem[PoolGate] = 1

\* C25: the stage of a request never decreases and advances one stage at a
\* time; the underlying executor is entered only while the request holds a
\* permit and has a resolved request, and once at most; the responder is
\* invoked at most once and only with a response the executor returned; no
\* step follows Responded.
C25_StagesInOrder ==
    /\ [][/\ Stage(exch'.pc) >= Stage(exch.pc)
          /\ Stage(exch'.pc) <= Stage(exch.pc) + 1
          /\ exch'.execCalls # exch.execCalls
                => HoldsPermit /\ exch.hasReq /\ exch.pc = "admitted"
          /\ exch'.respCalls # exch.respCalls
                => /\ exch.pc = "executed"
                   /\ exch.execCalls = 1
                   /\ exch.err = NilError
                   /\ exch.res # NoResponse
          /\ exch.pc = "responded" => UNCHANGED vars]_vars
    /\ [](/\ exch.execCalls <= 1
          /\ exch.respCalls <= 1
          /\ HoldsPermit <=> exch.pc \in {"admitted", "ran"}
          /\ exch.pc = "responded" => exch.respCalls = 1)

\* A request went through every stage and gave its permit back.
C25_Witness ==
    /\ exch.pc = "responded"
    /\ exch.execCalls = 1
    /\ exch.respCalls = 1
    /\ exch.res.status = 404
    /\ ~HoldsPermit

(***************************************************************************)
(* Claims about what Do changes in the builder.                            *)
(***************************************************************************)
\* C26: no step of Do changes a field of the builder: HTTPRequest and
\* OnHTTPResponse leave the jsonRequest as the build phase left it.
C26_BuilderReadOnlyInDo ==
    [][exch'.pc # exch.pc => builder' = builder]_vars

(***************************************************************************)
(* Claims about Header.                                                    *)
(***************************************************************************)
\* The names HTTPRequest sets itself.
ForcedKeys == {Canon("Content-Type"), Canon("Accept")}

\* C27: every Header(name, value) call appends value to the values held
\* under the canonical form of name and changes nothing else, so the values
\* of a name stay in call order, duplicates included; and the resolved
\* request carries, for every name other than Content-Type and Accept,
\* exactly the values the builder holds.
C27_HeaderAppends ==
    /\ [][\A n \in HeaderNames, v \in HeaderValues :
            Header(n, v) =>
                builder' = [builder EXCEPT
                              !.headers[Canon(n)] = Append(@, v)]]_vars
    /\ [](exch.hasReq =>
             \A k \in HeaderKeys \ ForcedKeys :
                 exch.req.headers[k] = builder.headers[k])

\* Header was called twice with the same value for one name, and the
\* resolved request carries the value twice.
C27_Witness ==
    /\ exch.hasReq
    /\ builder.headers[Canon("x-a")] = <<"v", "v">>
    /\ exch.req.headers[Canon("x-a")] = <<"v", "v">>

(***************************************************************************)
(* Claims about status overrides.                                          *)
(***************************************************************************)
\* C28: a response whose status is below 400 is resolved by the success
\* path whatever StatusError registered for that status: the result is the
\* result of decoding into the success target, and a registered error is
\* not returned.
C28_OverrideBelow400Ignored ==
    (RespondedBelow400 /\ OverrideMatches) =>
        /\ exch.err # ErrorOf("registered", 1)
        /\ exch.into \subseteq {"success"}
        /\ builder.success = NoTarget =>
              exch.err = NilError /\ exch.decodes = 0
        /\ builder.success # NoTarget =>
              /\ exch.decodes = 1
              /\ LET k == DecodeErrorKind(exch.res.body, builder.success)
                 IN  IF k = "none" THEN exch.err = NilError
                     ELSE exch.err.kind = k

\* An error was registered for status 200, a response with status 200 was
\* resolved, and Do returned no error.
C28_Witness ==
    /\ RespondedBelow400
    /\ exch.res.status = 200
    /\ builder.statusErrors[200] =
          [ok |-> TRUE, err |-> ErrorOf("registered", 1)]
    /\ exch.err = NilError

\* The caller asked for nil: the error registered for the status is nil,
\* or no error is registered for it and the failure target, decoded without
\* error, is an Errorable whose AsError returns nil.
NilRequested ==
    IF OverrideMatches
    THEN builder.statusErrors[exch.res.status].err = NilError
    ELSE /\ builder.failure # NoTarget
         /\ TargetKind[builder.failure] = "ErrorableNil"
         /\ DecodeErrorKind(exch.res.body, builder.failure) = "none"

\* C29 as stated: whatever was registered, a response with a status of 400
\* or more is resolved to an error that is not nil.
C29_ErrorStatusGivesError ==
    RespondedFrom400 => exch.err # NilError

\* C29: a response with a status of 400 or more is resolved to an error
\* that is not nil, except where the caller asked for nil: there
\* OnHTTPResponse returns nil.
C29_ErrorStatusGivesErrorUnlessNilRequested ==
    RespondedFrom400 => (exch.err = NilError <=> NilRequested)

\* A response of status 404 was decoded into an Errorable whose AsError
\* returns nil, and Do returned nil.
C29_Witness ==
    /\ RespondedFrom400
    /\ exch.res.status = 404
    /\ exch.written = {builder.failure}
    /\ TargetKind[builder.failure] = "ErrorableNil"
    /\ exch.err = NilError

(***************************************************************************)
(* Claims about waiting at the gate.                                       *)
(***************************************************************************)
\* Caller c, about to call Do, is admitted on some handle without waiting.
AdmittedAtOnce(c) == ENABLED (\E h \in Handles : Lock(c, h))

\* C30: a caller about to call Do is kept waiting only while exactly
\* capacity calls hold permits; with no more callers than the capacity no
\* caller is ever kept waiting.
C30_WaitsOnlyAtFullGate ==
    \A c \in Callers :
        pc[c] = "started" =>
            /\ ~AdmittedAtOnce(c)
                  => Cardinality(Holding(PoolGate)) = capacity
            /\ NumCallers <= capacity => AdmittedAtOnce(c)

\* With more callers than permits, as many calls as the capacity are inside
\* the underlying executor at once and the caller left over waits.
C30_Witness ==
    /\ capacity = MaxPoolSize
    /\ capacity < NumCallers
    /\ Cardinality(InFlight(PoolGate)) = capacity
    /\ \E c \in Callers : pc[c] = "started" /\ ~AdmittedAtOnce(c)

====
